---- MODULE Spec2Model ----
(***************************************************************************)
(* Model of the two document-ingestion pipelines of kummatty-app           *)
(* (src/lib/ingestion.ts, src/lib/ingestion_xenova.ts), of the ingest      *)
(* route handlers in front of them and of the chat route handler.          *)
(*                                                                         *)
(* One action is one atomic segment of the JavaScript code: the code that  *)
(* runs from the moment an awaited promise settles up to the next await    *)
(* (or up to the value the HTTP handler answers with).  Several requests   *)
(* may be in flight in one Node.js process, so segments of different runs  *)
(* interleave at the awaits.                                               *)
(***************************************************************************)
EXTENDS Naturals, Sequences, FiniteSets, Bags, TLC

(* ---------------------------- bounds ----------------------------------- *)

\* The number of ingest requests that arrive in one behaviour.
MaxRuns == 2

MaxFiles == 2

MaxChunks == 2

MaxChatRequests == 2

VARIABLES dir, endpoint, coll, extractor, initsSinceRelease, started, task, chat

vars == <<dir, endpoint, coll, extractor, initsSinceRelease, started, task, chat>>

\* The ingest requests in flight: two at a time, which is what it takes for
\* two runs to overlap.  A handler that has answered takes the next request.
Handlers == {"h1", "h2"}

Pipelines == {"gemini", "xenova"}

(* ------------------------- documents directory ------------------------- *)

\* What a file of the directory holds: a PDF that cannot be parsed, a PDF
\* whose pages carry no text, or a PDF whose text the splitter cuts into
\* chunks: a short one gives a single chunk, a long one MaxChunks chunks.
Unreadable == [kind |-> "unreadable", parts |-> 0]

Blank == [kind |-> "blank", parts |-> 0]

Contents == {Unreadable, Blank} \cup {[kind |-> "text", parts |-> n] : n \in {1, MaxChunks}}

FileName(i, ext) == "doc" \o ToString(i) \o ext

\* Directories: up to MaxFiles entries in listing order; entries that are not
\* PDF files carry no content of interest.
DirEntries(i) ==
  {[name |-> FileName(i, ".txt"), content |-> Blank]}
    \cup {[name |-> FileName(i, ".pdf"), content |-> c] : c \in Contents}

Directories ==
  UNION {{d \in [1..n -> UNION {DirEntries(i) : i \in 1..n}] :
            \A i \in 1..n : d[i] \in DirEntries(i)} : n \in 0..MaxFiles}

EndsWith(s, suffix) ==
  /\ Len(s) >= Len(suffix)
  /\ SubSeq(s, Len(s) - Len(suffix) + 1, Len(s)) = suffix

\* A listing that is not filtered.
AnyFile(file) == TRUE

\* readdir(...).filter(file => file.endsWith('.pdf'))
IsPdf(file) == EndsWith(file.name, ".pdf")

PdfFiles(d) == SelectSeq(d, IsPdf)

files == PdfFiles(dir)

(* ------------------------------ texts ---------------------------------- *)

EmptyText == [chars |-> "none", parts |-> 0]

\* pdf2json: every page contributes its text runs followed by "\n\n", so a
\* PDF without text yields whitespace only.
PdfParserText(content) ==
  IF content = Blank THEN [chars |-> "whitespace", parts |-> 0]
  ELSE [chars |-> "words", parts |-> content.parts]

Trim(text) == IF text.chars = "whitespace" THEN EmptyText ELSE text

\* pdf-parse followed by data.text.trim()
PdfParseText(content) == Trim(PdfParserText(content))

TextLength(text) == IF text.chars = "none" THEN 0 ELSE 1

\* RecursiveCharacterTextSplitter.splitText: deterministic in the text; the
\* chunk at position i of a document is told apart by source and position.
SplitText(fileName, text) ==
  [i \in 1..text.parts |-> [from |-> fileName, piece |-> i - 1]]

\* The vector of one text under a fixed embedding model.
EmbeddingOf(chunk) == [vectorOf |-> chunk]

(* ------------------------- ids, rows, the store ------------------------ *)

ChunkId(fileName, i) == fileName \o "-" \o ToString(i)

Ids(fileName, chunks) == [k \in 1..Len(chunks) |-> ChunkId(fileName, k - 1)]

Metadatas(fileName, chunks) ==
  [k \in 1..Len(chunks) |-> [source |-> fileName, chunk_index |-> k - 1]]

\* The argument of collection.upsert.
UpsertArgs(fileName, chunks, embeddings) ==
  [ids |-> Ids(fileName, chunks),
   embeddings |-> embeddings,
   documents |-> chunks,
   metadatas |-> Metadatas(fileName, chunks)]

NoArgs == [ids |-> <<>>, embeddings |-> <<>>, documents |-> <<>>, metadatas |-> <<>>]

Aligned(args) ==
  /\ Len(args.ids) = Len(args.embeddings)
  /\ Len(args.ids) = Len(args.documents)
  /\ Len(args.ids) = Len(args.metadatas)

\* The rows an accepted upsert writes.
RowsOf(args) ==
  {[id |-> args.ids[k], embedding |-> args.embeddings[k],
    document |-> args.documents[k], metadata |-> args.metadatas[k]]
     : k \in 1..Len(args.ids)}

\* A collection is a bag of rows, so that a row stored twice shows.
RowIds(rows) == {row.id : row \in BagToSet(rows)}

\* A plain insert, which stores the new rows next to the old ones.
CollectionAdd(rows, new) == rows (+) SetToBag(new)

\* collection.upsert: overwrite semantics keyed by id.
CollectionUpsert(rows, new) ==
  LET kept == {row \in BagToSet(rows) : row.id \notin {n.id : n \in new}}
  IN [row \in kept |-> rows[row]] (+) SetToBag(new)

(* ------------------------ results and responses ------------------------ *)

NoError == "undefined"

ConnectError == "Failed to connect to ChromaDB. Ensure the service is running at CHROMA_HOST"

NoPdfError == "No PDF files found in the directory: DOCUMENTS_DIR"

ListError == "ENOENT: no such file or directory, scandir"

PdfError == "PDF parsing error"

EmbeddingsMissingError == "Failed to generate embeddings. The API response did not contain the expected 'embeddings' data."

EmbedApiError == "embedContent request failed"

PipelineError == "pipeline() could not load the model"

InferenceError == "feature extraction failed"

NullExtractorError == "extractor is not a function"

UpsertError == "collection.upsert failed"

NoResult == [kind |-> "pending"]

NoResponse == [status |-> 0]

\* return { success: true, count: chunkCount }
IngestSuccess(chunkCount) ==
  [kind |-> "value", success |-> TRUE, count |-> chunkCount, error |-> NoError]

\* return { success: false, count: 0, error: ... } of the empty directory
IngestNoPdf ==
  [kind |-> "value", success |-> FALSE, count |-> 0, error |-> NoPdfError]

\* A catch block that lets the exception go on to the caller.
IngestRethrow(message) == [kind |-> "throw", error |-> message]

\* catch (e) { return { success: false, count: 0, error: e.message } }
IngestCatch(message) ==
  [kind |-> "value", success |-> FALSE, count |-> 0, error |-> message]

\* The POST handler of an ingest route, applied to what the ingestion call
\* produced.
IngestRoute(result) ==
  IF result.kind = "throw"
  THEN [status |-> 500,
        body |-> [message |-> "Internal server error during ingestion process.",
                  error |-> result.error]]
  ELSE IF result.success
  THEN [status |-> 200,
        body |-> [message |-> "Ingestion successful.", count |-> result.count]]
  ELSE [status |-> 500,
        body |-> [message |-> "Ingestion failed.", error |-> result.error]]

(* --------------------------- the extractor ----------------------------- *)

Null == "null"

Instance == "feature-extraction pipeline"

\* finally { if (extractor) { extractor = null; } }
ReleaseExtractor(e) == IF e # Null THEN Null ELSE e

(* ------------------------------ runs ----------------------------------- *)

\* The state of one ingest request: the position of the handler (pc), the
\* local variables of the ingestion function, what it returned and what the
\* handler answered.  extracted, embedded, upsertCalled and upserted record
\* the documents (positions in files) for which the run issued an extraction,
\* an embed call, an upsert call, and for which the upsert completed;
\* failedAt and embedFailedAt record the document at which an exception,
\* or an embedding failure, ended the run.
IdleTask ==
  [pipeline |-> "none", pc |-> "idle", idx |-> 0, chunkCount |-> 0,
   chunks |-> <<>>, args |-> NoArgs, ext |-> Null, used |-> "nothing",
   result |-> NoResult, response |-> NoResponse,
   extracted |-> {}, embedded |-> {}, upsertCalled |-> {}, upserted |-> {},
   failedAt |-> 0, embedFailedAt |-> 0]

\* The function returns; its locals are gone and the handler answers.
Returned(t, result) ==
  [t EXCEPT !.pc = "done", !.idx = 0, !.chunkCount = 0, !.chunks = <<>>,
            !.args = NoArgs, !.ext = Null,
            !.result = result, !.response = IngestRoute(result)]

\* An exception reaches the catch block of the ingestion function while
\* document t.idx is in progress (0: before the loop).
Caught(t, message) ==
  Returned([t EXCEPT !.failedAt = t.idx], IngestCatch(message))

\* The for loop goes on to the next file, or ends and the function returns
\* the running total.
NextFile(t) ==
  IF t.idx < Len(files)
  THEN [t EXCEPT !.pc = "extract", !.idx = t.idx + 1, !.chunks = <<>>,
                 !.args = NoArgs, !.ext = Null,
                 !.extracted = @ \cup {t.idx + 1}]
  ELSE Returned(t, IngestSuccess(t.chunkCount))

\* An embedding failure that is logged and skipped like a parse failure.
EmbedSkipped(t, message) == NextFile([t EXCEPT !.embedFailedAt = t.idx])

\* An embedding failure: generateEmbeddings / generateEmbeddingsXenova throws.
EmbedFailed(t, message) ==
  Caught([t EXCEPT !.embedFailedAt = t.idx], message)

\* chunkCount += 1, counting documents instead of chunks.
CountDocument(chunkCount, chunks) == chunkCount + 1

\* chunkCount += chunks.length
AddChunks(chunkCount, chunks) == chunkCount + Len(chunks)

\* The task after the pending upsert of run r completed.
AfterUpsert(t) ==
  NextFile([t EXCEPT !.chunkCount = AddChunks(t.chunkCount, t.chunks),
                     !.upserted = @ \cup {t.idx}])

\* A step of the cloud pipeline: only the task and the collection change.
GeminiStep(r, t) ==
  /\ task' = [task EXCEPT ![r] = t]
  /\ UNCHANGED <<dir, endpoint, extractor, initsSinceRelease, started, chat>>

\* A step of the local pipeline: when the function returns, its finally
\* block releases the process-wide extractor.
XenovaStep(r, t) ==
  /\ task' = [task EXCEPT ![r] = t]
  /\ extractor' = IF t.pc = "done" THEN ReleaseExtractor(extractor) ELSE extractor
  /\ initsSinceRelease' =
       IF t.pc = "done" /\ extractor # Null /\ ReleaseExtractor(extractor) = Null
       THEN 0 ELSE initsSinceRelease
  /\ UNCHANGED <<dir, endpoint, started, chat>>

At(r, pipeline, pc) == task[r].pipeline = pipeline /\ task[r].pc = pc

(* ------------------- POST /api/ingest and /api/ingest-xenova ----------- *)

\* A POST arrives at the ingest endpoint under study; the handler calls the
\* ingestion function, which awaits chromaClient.getOrCreateCollection.
\* (The two pipelines share no state: each has its own module, collection
\* and route, so a behaviour follows the requests to one of them.)
StartRun(r) ==
  /\ task[r].pc \in {"idle", "done"}
  /\ started < MaxRuns
  /\ started' = started + 1
  /\ task' = [task EXCEPT ![r] = [IdleTask EXCEPT !.pipeline = endpoint,
                                                  !.pc = "connect"]]
  /\ UNCHANGED <<dir, endpoint, coll, extractor, initsSinceRelease, chat>>

(* ------------------------- ingestDocuments ----------------------------- *)

\* The store cannot be reached: getOrCreateCollection throws.
Gemini_ConnectFailed(r) ==
  /\ At(r, "gemini", "connect")
  /\ GeminiStep(r, Caught(task[r], ConnectError))
  /\ UNCHANGED coll

\* The collection is there: list the directory (readdirSync may throw),
\* keep the PDF files, return at once when there is none, else start the
\* extraction of the first file.
Gemini_Connected(r) ==
  /\ At(r, "gemini", "connect")
  /\ \E listed \in BOOLEAN :
       GeminiStep(r, IF ~listed THEN Caught(task[r], ListError)
                     ELSE IF Len(files) = 0 THEN Returned(task[r], IngestNoPdf)
                     ELSE NextFile(task[r]))
  /\ UNCHANGED coll

\* extractTextFromPdf settles: a parser error rejects; else the text is
\* split and generateEmbeddings sends all chunks to the embedding service.
Gemini_Extracted(r) ==
  /\ At(r, "gemini", "extract")
  /\ LET t == task[r]
         file == files[t.idx]
     IN GeminiStep(r,
          IF file.content = Unreadable THEN Caught(t, PdfError)
          ELSE [t EXCEPT !.pc = "embed",
                         !.chunks = SplitText(file.name, PdfParserText(file.content)),
                         !.embedded = @ \cup {t.idx}])
  /\ UNCHANGED coll

\* ai.models.embedContent throws.
Gemini_EmbedThrew(r) ==
  /\ At(r, "gemini", "embed")
  /\ GeminiStep(r, EmbedFailed(task[r], EmbedApiError))
  /\ UNCHANGED coll

\* ai.models.embedContent answers with m vectors (the service decides how
\* many): none is an error; else ids and metadatas are built from the
\* chunks and collection.upsert is called.
Gemini_EmbedResponded(r) ==
  /\ At(r, "gemini", "embed")
  /\ \E m \in 0..MaxChunks :
       LET t == task[r]
           file == files[t.idx]
           embeddings ==
             [k \in 1..m |-> IF k <= Len(t.chunks) THEN EmbeddingOf(t.chunks[k])
                             ELSE [vectorOf |-> [from |-> "surplus", piece |-> k - 1]]]
       IN GeminiStep(r,
            IF m = 0 THEN EmbedFailed(t, EmbeddingsMissingError)
            ELSE [t EXCEPT !.pc = "upsert",
                           !.args = UpsertArgs(file.name, t.chunks, embeddings),
                           !.upsertCalled = @ \cup {t.idx}])
  /\ UNCHANGED coll

\* The store rejects the upsert, or cannot be reached.
Gemini_UpsertFailed(r) ==
  /\ At(r, "gemini", "upsert")
  /\ GeminiStep(r, Caught(task[r], UpsertError))
  /\ UNCHANGED coll

\* The store accepts the upsert (it accepts aligned arrays only).
Gemini_Upserted(r) ==
  /\ At(r, "gemini", "upsert")
  /\ Aligned(task[r].args)
  /\ coll' = [coll EXCEPT !["gemini"] = CollectionUpsert(@, RowsOf(task[r].args))]
  /\ GeminiStep(r, AfterUpsert(task[r]))

(* ---------------------- ingestDocumentsXenova --------------------------- *)

Xenova_ConnectFailed(r) ==
  /\ At(r, "xenova", "connect")
  /\ XenovaStep(r, Caught(task[r], ConnectError))
  /\ UNCHANGED coll

\* The collection is there: await fs.readdir.
Xenova_Connected(r) ==
  /\ At(r, "xenova", "connect")
  /\ XenovaStep(r, [task[r] EXCEPT !.pc = "list"])
  /\ UNCHANGED coll

Xenova_ListFailed(r) ==
  /\ At(r, "xenova", "list")
  /\ XenovaStep(r, Caught(task[r], ListError))
  /\ UNCHANGED coll

\* The listing arrives: keep the PDF files, return at once when there is
\* none, else start the extraction of the first file.
Xenova_Listed(r) ==
  /\ At(r, "xenova", "list")
  /\ XenovaStep(r, IF Len(files) = 0 THEN Returned(task[r], IngestNoPdf)
                   ELSE NextFile(task[r]))
  /\ UNCHANGED coll

\* initializeExtractor, up to its await: with no instance held it starts
\* pipeline(); else it returns the instance held.
InitializeExtractor(t) ==
  IF extractor = Null THEN [t EXCEPT !.pc = "loading"]
  ELSE [t EXCEPT !.pc = "ready", !.ext = extractor]

\* extractTextFromPdf settles, and the text is split.  A file that cannot
\* be parsed, has no text or yields no chunk is skipped (continue); else
\* generateEmbeddingsXenova is called, which calls initializeExtractor.
Xenova_Extracted(r) ==
  /\ At(r, "xenova", "extract")
  /\ LET t == task[r]
         file == files[t.idx]
         fullText == PdfParseText(file.content)
         chunks == SplitText(file.name, fullText)
         skip == \/ file.content = Unreadable
                 \/ TextLength(fullText) = 0
                 \/ Len(chunks) = 0
         t2 == IF skip THEN NextFile(t)
               ELSE InitializeExtractor([t EXCEPT !.chunks = chunks,
                                                  !.embedded = @ \cup {t.idx}])
     IN /\ task' = [task EXCEPT ![r] = t2]
        /\ extractor' = IF t2.pc = "done" THEN ReleaseExtractor(extractor) ELSE extractor
        /\ initsSinceRelease' =
             IF t2.pc = "done" /\ extractor # Null /\ ReleaseExtractor(extractor) = Null
             THEN 0
             ELSE IF t2.pc = "loading" THEN initsSinceRelease + 1
             ELSE initsSinceRelease
  /\ UNCHANGED <<dir, endpoint, coll, started, chat>>

\* pipeline() rejects: the model cannot be loaded.
Xenova_PipelineFailed(r) ==
  /\ At(r, "xenova", "loading")
  /\ XenovaStep(r, EmbedFailed(task[r], PipelineError))
  /\ UNCHANGED coll

\* pipeline() resolves: extractor = <the instance>; return extractor.
Xenova_PipelineLoaded(r) ==
  /\ At(r, "xenova", "loading")
  /\ task' = [task EXCEPT ![r] = [@ EXCEPT !.pc = "ready", !.ext = Instance]]
  /\ extractor' = Instance
  /\ UNCHANGED <<dir, endpoint, coll, initsSinceRelease, started, chat>>

\* The call site reads the process-wide variable instead of the value
\* initializeExtractor returned.
GlobalExtractor(t) == extractor

\* const extractor = await initializeExtractor(): the local constant.
LocalExtractor(t) == t.ext

\* await initializeExtractor() resumes: extractor(allChunks, ...) is called.
\* Calling null throws a TypeError.
Xenova_ExtractorReady(r) ==
  /\ At(r, "xenova", "ready")
  /\ LET t == [task[r] EXCEPT !.used = LocalExtractor(task[r])]
     IN XenovaStep(r, IF t.used = Null THEN EmbedFailed(t, NullExtractorError)
                      ELSE [t EXCEPT !.pc = "infer"])
  /\ UNCHANGED coll

\* The model fails on the batch.
Xenova_InferFailed(r) ==
  /\ At(r, "xenova", "infer")
  /\ XenovaStep(r, EmbedFailed(task[r], InferenceError))
  /\ UNCHANGED coll

\* The tensor arrives: one vector is read for every chunk, ids and
\* metadatas are built and collection.upsert is called.
Xenova_Inferred(r) ==
  /\ At(r, "xenova", "infer")
  /\ LET t == task[r]
         file == files[t.idx]
         embeddingsArray == [k \in 1..Len(t.chunks) |-> EmbeddingOf(t.chunks[k])]
     IN XenovaStep(r, [t EXCEPT !.pc = "upsert",
                                !.args = UpsertArgs(file.name, t.chunks, embeddingsArray),
                                !.upsertCalled = @ \cup {t.idx}])
  /\ UNCHANGED coll

Xenova_UpsertFailed(r) ==
  /\ At(r, "xenova", "upsert")
  /\ XenovaStep(r, Caught(task[r], UpsertError))
  /\ UNCHANGED coll

Xenova_Upserted(r) ==
  /\ At(r, "xenova", "upsert")
  /\ Aligned(task[r].args)
  /\ coll' = [coll EXCEPT !["xenova"] = CollectionUpsert(@, RowsOf(task[r].args))]
  /\ XenovaStep(r, AfterUpsert(task[r]))

(* ----------------------------- POST /api/chat --------------------------- *)

ChatRequests == 1..MaxChatRequests

\* Request bodies: text that is no JSON, the JSON value null, and objects
\* whose query field is absent, "", a non-empty string or the number 0.
Undefined == [type |-> "undefined"]

QueryValues ==
  {Undefined, [type |-> "string", length |-> 0], [type |-> "string", length |-> 1],
   [type |-> "number", value |-> 0]}

Bodies ==
  {[json |-> "malformed"], [json |-> "null"]}
    \cup {[json |-> "object", query |-> q] : q \in QueryValues}

\* JavaScript truthiness of the query field.
Truthy(q) ==
  CASE q.type = "undefined" -> FALSE
    [] q.type = "string" -> q.length > 0
    [] q.type = "number" -> q.value # 0

IdleChat == [pc |-> "idle", body |-> [json |-> "none"], status |-> 0, ragCalls |-> 0]

\* A chat POST arrives; the handler awaits req.json().
Chat_Post(c, body) ==
  /\ chat[c].pc = "idle"
  /\ chat' = [chat EXCEPT ![c] = [@ EXCEPT !.pc = "json", !.body = body]]
  /\ UNCHANGED <<dir, endpoint, coll, extractor, initsSinceRelease, started, task>>

\* req.json() rejects, or destructuring null throws: the catch answers 500.
Chat_BodyRejected(c) ==
  /\ chat[c].pc = "json"
  /\ chat[c].body.json \in {"malformed", "null"}
  /\ chat' = [chat EXCEPT ![c] = [@ EXCEPT !.pc = "done", !.status = 500]]
  /\ UNCHANGED <<dir, endpoint, coll, extractor, initsSinceRelease, started, task>>

\* A check that lets every parsed body through.
NoQueryCheck(query) == TRUE

\* if (!query) return 400, seen from the side that goes on.
QueryCheck(query) == Truthy(query)

\* The body is an object: without a query the handler answers 400; else it
\* calls runRAGChatXenova(query) and awaits the stream.
Chat_BodyParsed(c) ==
  /\ chat[c].pc = "json"
  /\ chat[c].body.json = "object"
  /\ chat' = [chat EXCEPT ![c] =
                IF QueryCheck(chat[c].body.query)
                THEN [@ EXCEPT !.pc = "rag", !.ragCalls = @ + 1]
                ELSE [@ EXCEPT !.pc = "done", !.status = 400]]
  /\ UNCHANGED <<dir, endpoint, coll, extractor, initsSinceRelease, started, task>>

\* runRAGChatXenova resolves with the stream: 200, chunked text/plain.
Chat_Streamed(c) ==
  /\ chat[c].pc = "rag"
  /\ chat' = [chat EXCEPT ![c] = [@ EXCEPT !.pc = "done", !.status = 200]]
  /\ UNCHANGED <<dir, endpoint, coll, extractor, initsSinceRelease, started, task>>

\* runRAGChatXenova rejects: the catch answers 500.
Chat_RagFailed(c) ==
  /\ chat[c].pc = "rag"
  /\ chat' = [chat EXCEPT ![c] = [@ EXCEPT !.pc = "done", !.status = 500]]
  /\ UNCHANGED <<dir, endpoint, coll, extractor, initsSinceRelease, started, task>>

(* --------------------------- specifications ---------------------------- *)

Init ==
  /\ dir \in Directories
  /\ endpoint \in Pipelines
  /\ coll = [p \in Pipelines |-> EmptyBag]
  /\ extractor = Null
  /\ initsSinceRelease = 0
  /\ started = 0
  /\ task = [h \in Handlers |-> IdleTask]
  /\ chat = [c \in ChatRequests |-> IdleChat]

Next ==
  \E r \in Handlers :
    \/ StartRun(r)
    \/ Gemini_ConnectFailed(r)
    \/ Gemini_Connected(r)
    \/ Gemini_Extracted(r)
    \/ Gemini_EmbedThrew(r)
    \/ Gemini_EmbedResponded(r)
    \/ Gemini_UpsertFailed(r)
    \/ Gemini_Upserted(r)
    \/ Xenova_ConnectFailed(r)
    \/ Xenova_Connected(r)
    \/ Xenova_ListFailed(r)
    \/ Xenova_Listed(r)
    \/ Xenova_Extracted(r)
    \/ Xenova_PipelineFailed(r)
    \/ Xenova_PipelineLoaded(r)
    \/ Xenova_ExtractorReady(r)
    \/ Xenova_InferFailed(r)
    \/ Xenova_Inferred(r)
    \/ Xenova_UpsertFailed(r)
    \/ Xenova_Upserted(r)

Spec == Init /\ [][Next]_vars

ChatInit ==
  /\ dir = <<>>
  /\ endpoint = "xenova"
  /\ coll = [p \in Pipelines |-> EmptyBag]
  /\ extractor = Null
  /\ initsSinceRelease = 0
  /\ started = 0
  /\ task = [h \in Handlers |-> IdleTask]
  /\ chat = [c \in ChatRequests |-> IdleChat]

ChatNext ==
  \E c \in ChatRequests :
    \/ \E body \in Bodies : Chat_Post(c, body)
    \/ Chat_BodyRejected(c)
    \/ Chat_BodyParsed(c)
    \/ Chat_Streamed(c)
    \/ Chat_RagFailed(c)

ChatSpec == ChatInit /\ [][ChatNext]_vars

(* ------------------------------ claims --------------------------------- *)

Done(h) == task[h].pc = "done"

RECURSIVE ChunkSum(_)
\* The number of chunks of the documents at the positions in S.
ChunkSum(S) ==
  IF S = {} THEN 0
  ELSE LET i == CHOOSE x \in S : TRUE
       IN files[i].content.parts + ChunkSum(S \ {i})

\* The index the directory stands for: one row for every chunk of every
\* PDF file with text, under the id "{fileName}-{i}".
FullIndex ==
  SetToBag({[id |-> dir[f].name \o "-" \o ToString(i),
             embedding |-> [vectorOf |-> [from |-> dir[f].name, piece |-> i]],
             document |-> [from |-> dir[f].name, piece |-> i],
             metadata |-> [source |-> dir[f].name, chunk_index |-> i]]
              : <<f, i>> \in {<<g, j>> \in (1..Len(dir)) \X (0..MaxChunks) :
                               /\ EndsWith(dir[g].name, ".pdf")
                               /\ dir[g].content.kind = "text"
                               /\ j < dir[g].content.parts}})

\* C1: re-ingestion is idempotent in both pipelines.  A run that returns
\* success leaves in the collection exactly one row for every chunk of the
\* directory, under its id and with the text, vector and metadata of that
\* chunk; and once the collection is in that state every later step of
\* every run (a second run, overlapping or not, ending well or not) leaves
\* it so: no row is added, none is duplicated, none changes.
C1_ReingestIdempotent ==
  [][/\ \A h \in Handlers :
          (task'[h].pc = "done" /\ task'[h].result.kind = "value"
             /\ task'[h].result.success)
            => coll'[endpoint] = FullIndex
     /\ coll[endpoint] = FullIndex => coll'[endpoint] = FullIndex]_vars

\* Two runs have each upserted every chunk and the collection holds each
\* row once.
C1_Witness ==
  /\ started >= 2
  /\ \A h \in Handlers :
       /\ Done(h) /\ task[h].result.success
       /\ task[h].result.count > 1
       /\ BagCardinality(coll[endpoint]) = task[h].result.count
  /\ coll[endpoint] = FullIndex

\* C2: at every call of collection.upsert the arrays ids, embeddings,
\* documents and metadatas have the same length.
C2_UpsertArraysAligned ==
  \A h \in Handlers : task[h].pc = "upsert" => Aligned(task[h].args)

Skippable(file) == file.content.kind \in {"unreadable", "blank"}

\* C3: a document whose extraction fails or yields no text or no chunk is
\* skipped: no embed call and no upsert for it, the run does not fail at
\* it, and the next document is processed.
C3_EmptyDocumentSkipped ==
  \A h \in Handlers :
    Done(h) =>
      \A i \in task[h].extracted :
        Skippable(files[i]) =>
          /\ i \notin task[h].embedded
          /\ i \notin task[h].upsertCalled
          /\ task[h].failedAt # i
          /\ i < Len(files) => (i + 1) \in task[h].extracted

\* C4 as stated: whether the run ends in success or in failure, count is
\* the sum of the chunk counts of the documents whose upsert completed.
C4_CountIsUpsertedSum ==
  \A h \in Handlers :
    Done(h) => /\ task[h].result.kind = "value"
               /\ task[h].result.count = ChunkSum(task[h].upserted)

\* C4 as amended: a run that ends in success returns as count the sum of
\* the chunk counts of the documents whose upsert completed in that run; a
\* run that ends in failure returns count 0, whatever it upserted before.
C4_CountOnSuccessZeroOnFailure ==
  \A h \in Handlers :
    Done(h) =>
      /\ task[h].result.kind = "value"
      /\ task[h].result.success => task[h].result.count = ChunkSum(task[h].upserted)
      /\ ~task[h].result.success => task[h].result.count = 0

\* One run returned the total of two documents, another failed after its
\* first upsert.
C4_Witness ==
  \E h1, h2 \in Handlers :
    /\ Done(h1) /\ task[h1].result.success
    /\ Cardinality(task[h1].upserted) = 2
    /\ task[h1].result.count = 1 + MaxChunks
    /\ Done(h2) /\ ~task[h2].result.success
    /\ task[h2].upserted # {}

NoPdfInDirectory == \A i \in 1..Len(dir) : ~EndsWith(dir[i].name, ".pdf")

NoCalls(h) ==
  /\ task[h].extracted = {}
  /\ task[h].embedded = {}
  /\ task[h].upsertCalled = {}

\* C5 as stated: with no file ending in ".pdf" the run returns
\* {success: false, count: 0, error: "No PDF files found ..."} and issues
\* no extraction, embedding or upsert call.
C5_NoPdfResult ==
  \A h \in Handlers :
    (Done(h) /\ NoPdfInDirectory) => (task[h].result = IngestNoPdf /\ NoCalls(h))

\* C5 as amended: with no file ending in ".pdf" the run returns, as a
\* value, success false and count 0 and issues no extraction, embedding or
\* upsert call; the error is the "No PDF files found" message, or the
\* message of the failed connection or directory listing that came first.
C5_NoPdfFailsWithoutCalls ==
  \A h \in Handlers :
    (Done(h) /\ NoPdfInDirectory) =>
      /\ task[h].result.kind = "value"
      /\ ~task[h].result.success
      /\ task[h].result.count = 0
      /\ task[h].result.error \in {NoPdfError, ConnectError, ListError}
      /\ NoCalls(h)

\* A run over a directory that holds files, none of them a PDF, returned
\* the "No PDF files found" result.
C5_Witness ==
  \E h \in Handlers :
    /\ Done(h) /\ NoPdfInDirectory /\ Len(dir) > 0
    /\ task[h].result = IngestNoPdf

EmbeddingErrors ==
  {EmbedApiError, EmbeddingsMissingError, PipelineError, InferenceError}

\* C6: an embedding failure at document d ends the run: it returns
\* success false with the error message, no upsert is issued for d, no
\* later document is extracted, embedded or upserted, and the rows of the
\* documents upserted before d are in the collection.
C6_EmbeddingFailureIsFatal ==
  \A h \in Handlers :
    LET d == task[h].embedFailedAt
    IN d # 0 =>
         /\ Done(h)
         /\ task[h].result.kind = "value"
         /\ ~task[h].result.success
         /\ task[h].result.error \in EmbeddingErrors
         /\ d \notin task[h].upsertCalled
         /\ \A j \in (d + 1)..Len(files) :
              j \notin (task[h].extracted \cup task[h].embedded \cup task[h].upsertCalled)
         /\ \A i \in task[h].upserted :
              /\ i < d
              /\ \A k \in 0..(files[i].content.parts - 1) :
                   (files[i].name \o "-" \o ToString(k)) \in RowIds(coll[endpoint])

\* One run failed embedding the first of two documents, another failed
\* embedding the second after the first was upserted.
C6_Witness ==
  \E h1, h2 \in Handlers :
    /\ Len(files) = 2
    /\ task[h1].embedFailedAt = 1
    /\ task[h2].embedFailedAt = 2 /\ task[h2].upserted = {1}

\* C7: no exception escapes an ingestion call: it returns a value, with
\* error set whenever success is false, and the handler answers 200 with
\* {message, count} exactly when success is true and 500 with
\* {message, error} otherwise.
C7_NoExceptionEscapes ==
  \A h \in Handlers :
    Done(h) =>
      /\ task[h].result.kind = "value"
      /\ ~task[h].result.success => task[h].result.error # NoError
      /\ task[h].response.status = IF task[h].result.success THEN 200 ELSE 500
      /\ DOMAIN task[h].response.body =
           IF task[h].result.success THEN {"message", "count"} ELSE {"message", "error"}
      /\ task[h].result.success => task[h].response.body.count = task[h].result.count
      /\ ~task[h].result.success => task[h].response.body.error = task[h].result.error

\* One request was answered 200 and another 500 after a collaborator threw
\* in the middle of the run.
C7_Witness ==
  \E h1, h2 \in Handlers :
    /\ Done(h1) /\ task[h1].response.status = 200
    /\ Done(h2) /\ task[h2].response.status = 500 /\ task[h2].failedAt > 0

NoQuery(body) ==
  /\ body.json = "object"
  /\ body.query \in {Undefined, [type |-> "string", length |-> 0]}

\* C8: a chat POST whose body has a missing or empty query is answered 400
\* and never invokes runRAGChatXenova; the RAG pipeline is invoked only for
\* a body that passed the query check.
C8_MissingQueryRejected ==
  \A c \in ChatRequests :
    /\ NoQuery(chat[c].body) => chat[c].ragCalls = 0
    /\ (NoQuery(chat[c].body) /\ chat[c].pc = "done") => chat[c].status = 400
    /\ chat[c].ragCalls > 0 =>
         /\ chat[c].body.json = "object"
         /\ chat[c].body.query = [type |-> "string", length |-> 1]

\* One request without a query field and one with an empty query were
\* answered, while a request with a query was handed to the RAG pipeline.
C8_Witness ==
  \E c1, c2 \in ChatRequests :
    /\ chat[c1].pc = "done" /\ NoQuery(chat[c1].body) /\ chat[c1].status = 400
    /\ chat[c2].ragCalls = 1

\* C9: at most one model initialization (a call of pipeline()) happens
\* between two consecutive releases of the shared extractor, in any
\* interleaving of runs.
C9_OneInitBetweenReleases == initsSinceRelease <= 1

\* C10: when a run of the local pipeline returns, whatever its outcome,
\* the process-wide extractor is null; an embed call that finds it null
\* starts pipeline() again; and extractor(...) is never called on null.
C10_ReleasedAndSafeToCallAgain ==
  [][\A h \in Handlers :
       /\ (task[h].pipeline = "xenova" /\ task[h].pc # "done" /\ task'[h].pc = "done")
            => extractor' = Null
       /\ (task'[h].embedded # task[h].embedded /\ task[h].pc = "extract"
             /\ task[h].pipeline = "xenova" /\ extractor = Null)
            => task'[h].pc = "loading"
       /\ task'[h].used # Null]_vars

\* The first run upserted and returned, releasing the model; the second,
\* still in progress, loaded the model again and called it.
C10_Witness ==
  \E h1, h2 \in Handlers :
    /\ started = 2 /\ endpoint = "xenova"
    /\ Done(h1) /\ task[h1].upserted # {}
    /\ task[h2].pc = "infer" /\ task[h2].used = Instance
    /\ initsSinceRelease = 1 /\ extractor = Instance

====
